---------------------------- MODULE Spec2Model ----------------------------
(***************************************************************************)
(* A model of slides/week6.ipynb: Monte Carlo pricing of an arithmetic     *)
(* average Asian call with antithetic sampling and control variates        *)
(* (bmsim_vec, asianmc_vec, asiancall_geo, asianmc_cv, asiancall_geo2,     *)
(* asianMC) and of the notebook session that seeds numpy's process-wide    *)
(* generator and calls them.                                               *)
(*                                                                         *)
(* Numbers.  A numpy float64 is modelled as a fixed-point number: the      *)
(* integer v stands for v/One.  Every product, quotient and square root    *)
(* is rounded to the grid, to nearest and symmetrically in the sign (as    *)
(* IEEE rounding is), sums are exact, and NaN is one more value that every *)
(* operation propagates.  exp and norm.cdf are tabulated.                   *)
(***************************************************************************)
EXTENDS Integers, Sequences, FiniteSets

(***************************************************************************)
(* Bounds of the model.                                                    *)
(***************************************************************************)
MaxN == 2
MaxNumsim == 2

(***************************************************************************)
(* float64 arithmetic.                                                     *)
(***************************************************************************)
One == 1024
NaN == -1073741824

Abs(a) == IF a < 0 THEN -a ELSE a

\* a/b for integers, b # 0, rounded to nearest, ties away from zero.
RDiv(a, b) ==
  LET q == (2 * Abs(a) + Abs(b)) \div (2 * Abs(b))
  IN  IF (a < 0) = (b < 0) THEN q ELSE -q

IsNaN(a) == a = NaN

fadd(a, b) == IF IsNaN(a) \/ IsNaN(b) THEN NaN ELSE a + b
fsub(a, b) == IF IsNaN(a) \/ IsNaN(b) THEN NaN ELSE a - b
fneg(a) == IF IsNaN(a) THEN NaN ELSE -a

\* |a|*|b|/One rounded to nearest, the product taken in two parts to stay
\* within the integers of the model checker.
MulAbs(a, b) == a * (b \div One) + (a * (b % One) + One \div 2) \div One

fmul(a, b) ==
  IF IsNaN(a) \/ IsNaN(b) THEN NaN
  ELSE IF (a < 0) = (b < 0) THEN MulAbs(Abs(a), Abs(b))
  ELSE -MulAbs(Abs(a), Abs(b))

\* |a|*One/|b| rounded to nearest, by long division.
DivAbs(a, b) == (a \div b) * One + (2 * (a % b) * One + b) \div (2 * b)

\* numpy's quotient: no exception on a zero divisor.  0/0 is nan; the
\* configurations of the model reach no x/0 with x # 0 (which is +-inf).
fdiv(a, b) ==
  IF IsNaN(a) \/ IsNaN(b) \/ b = 0 THEN NaN
  ELSE IF (a < 0) = (b < 0) THEN DivAbs(Abs(a), Abs(b))
  ELSE -DivAbs(Abs(a), Abs(b))

\* Comparisons with nan are false.
fgt(a, b) == ~IsNaN(a) /\ ~IsNaN(b) /\ a > b
fle(a, b) == ~IsNaN(a) /\ ~IsNaN(b) /\ a <= b

\* np.maximum propagates nan.
fmax(a, b) == IF IsNaN(a) \/ IsNaN(b) THEN NaN ELSE IF a >= b THEN a ELSE b

RECURSIVE SqrtSearch(_, _, _)
SqrtSearch(n, lo, hi) ==
  IF lo >= hi THEN lo
  ELSE LET mid == (lo + hi + 1) \div 2
       IN  IF mid * mid <= n THEN SqrtSearch(n, mid, hi)
           ELSE SqrtSearch(n, lo, mid - 1)

\* Integer square root, rounded to nearest.
ISqrt(n) ==
  LET f == SqrtSearch(n, 0, IF n < 46340 THEN n ELSE 46340)
  IN  IF n - f * f > f THEN f + 1 ELSE f

fsqrt(a) == IF IsNaN(a) \/ a < 0 THEN NaN ELSE ISqrt(a * One)

\* A Python int as a float.
float(k) == k * One

\* The tables of exp and norm.cdf hold One*f(k/Knots) rounded, for the
\* knots k/Knots of [-5, 5] and of [-3, 3]; between two knots the value is
\* interpolated linearly.
Knots == One \div 64
Step == One \div Knots

Interpolate(tab, lo, x) ==
  LET k == (x - lo) \div Step
      rest == (x - lo) % Step
  IN  IF rest = 0 THEN tab[k + 1]
      ELSE tab[k + 1] + RDiv((tab[k + 2] - tab[k + 1]) * rest, Step)

ExpLo == -5 * One
ExpHi == 5 * One
ExpTab ==
  << 7, 7, 8, 8, 9, 9, 10, 11, 11, 12,
     13, 14, 15, 16, 17, 18, 19, 20, 21, 23,
     24, 26, 27, 29, 31, 33, 35, 37, 40, 42,
     45, 48, 51, 54, 58, 61, 65, 70, 74, 79,
     84, 89, 95, 101, 108, 115, 122, 130, 139, 148,
     157, 167, 178, 189, 202, 215, 228, 243, 259, 276,
     293, 312, 332, 354, 377, 401, 427, 454, 484, 515,
     548, 583, 621, 661, 704, 749, 797, 849, 904, 962,
     1024, 1090, 1160, 1235, 1315, 1400, 1490, 1586, 1688, 1797,
     1913, 2036, 2168, 2308, 2456, 2615, 2784, 2963, 3154, 3358,
     3574, 3805, 4050, 4311, 4589, 4885, 5200, 5536, 5893, 6273,
     6677, 7108, 7566, 8054, 8574, 9127, 9715, 10342, 11009, 11719,
     12475, 13279, 14136, 15048, 16018, 17051, 18151, 19321, 20568, 21894,
     23306, 24809, 26409, 28113, 29926, 31856, 33910, 36097, 38425, 40904,
     43542, 46350, 49339, 52521, 55909, 59514, 63353, 67439, 71788, 76418,
     81346, 86593, 92178, 98122, 104451, 111187, 118358, 125992, 134118, 142767,
     151975 >>

\* np.exp: it underflows to 0 below the table (an argument above the table
\* is outside the model).
fexp(x) ==
  IF IsNaN(x) THEN NaN
  ELSE IF x < ExpLo THEN 0
  ELSE Interpolate(ExpTab, ExpLo, x)

RECURSIVE LogSearch(_, _, _)
LogSearch(a, lo, hi) ==
  IF lo >= hi THEN lo
  ELSE LET mid == (lo + hi + 1) \div 2
       IN  IF fexp(mid) <= a THEN LogSearch(a, mid, hi)
           ELSE LogSearch(a, lo, mid - 1)

\* np.log: the greatest x with fexp(x) <= a; nan for a < 0.  (log(0) = -inf
\* lies outside the configurations of the model.)
flog(a) ==
  IF IsNaN(a) \/ a <= 0 THEN NaN
  ELSE LogSearch(a, ExpLo, ExpHi)

PhiLo == -3 * One
PhiTab ==
  << 1, 2, 2, 3, 3, 4, 4, 5, 6, 8,
     9, 11, 13, 15, 17, 20, 23, 27, 31, 36,
     41, 47, 53, 61, 68, 77, 87, 97, 108, 120,
     133, 147, 162, 178, 195, 213, 232, 252, 272, 294,
     316, 339, 362, 386, 411, 436, 461, 486, 512, 538,
     563, 588, 613, 638, 662, 685, 708, 730, 752, 772,
     792, 811, 829, 846, 862, 877, 891, 904, 916, 927,
     937, 947, 956, 963, 971, 977, 983, 988, 993, 997,
     1001, 1004, 1007, 1009, 1011, 1013, 1015, 1016, 1018, 1019,
     1020, 1020, 1021, 1021, 1022, 1022, 1023 >>

\* scipy's norm.cdf, saturating at 0 and 1 outside [-3, 3].
norm_cdf(d) ==
  IF IsNaN(d) THEN NaN
  ELSE IF d < PhiLo THEN 0
  ELSE IF d > -PhiLo THEN One
  ELSE Interpolate(PhiTab, PhiLo, d)

\* norm.ppf(0.975) = 1.95996... on the grid.
zq == 2007

(***************************************************************************)
(* Vectors (numpy arrays of one axis) as sequences.                        *)
(***************************************************************************)
RECURSIVE fsum(_)
fsum(v) == IF v = << >> THEN 0 ELSE fadd(v[1], fsum(Tail(v)))

\* ndarray.mean()
mean(v) == fdiv(fsum(v), float(Len(v)))

\* ndarray.std() and np.var: the denominator is the length (ddof = 0).
var(v) ==
  LET m == mean(v)
  IN  mean([i \in 1..Len(v) |-> fmul(fsub(v[i], m), fsub(v[i], m))])

std(v) == fsqrt(var(v))

\* np.cov(x, y)[0, 1]: the denominator is the length - 1 (ddof = 1); with
\* one observation numpy divides 0 by 0 and gives nan.
cov01(x, y) ==
  LET mx == mean(x)
      my == mean(y)
  IN  fdiv(fsum([i \in 1..Len(x) |-> fmul(fsub(x[i], mx), fsub(y[i], my))]),
           float(Len(x) - 1))

(***************************************************************************)
(* numpy's process-wide generator (np.random): a state in RngStates, a     *)
(* transition and an output per state.                                     *)
(***************************************************************************)
RngStates == 0..15

RngNext(s) == (5 * s + 3) % 16

DrawTab ==
  << 512, -1024, 0, 1536, -512, 1024, -1536, 512,
     0, -1024, 1536, -512, 1024, 0, -1536, 512 >>

RngOut(s) == DrawTab[s + 1]

RECURSIVE RngSkip(_, _)
RngSkip(s, k) == IF k = 0 THEN s ELSE RngSkip(RngNext(s), k - 1)

\* np.random.randn(rows, cols) from state s: the matrix, filled row by row.
randn(s, rows, cols) ==
  [i \in 1..rows |-> [j \in 1..cols |->
     RngOut(RngSkip(s, (i - 1) * cols + (j - 1)))]]

(***************************************************************************)
(* bmsim_vec and the pricing functions.  Each takes the generator state s  *)
(* it starts from and returns a record: exc (the exception raised, "" for  *)
(* none), rng (the generator state it leaves), draws (the normals drawn)   *)
(* and its values.  The pricing functions return their intermediate        *)
(* vectors too, one per series (the price, and for asianMC the Delta):     *)
(* tgt and ctl (the target and the control per row), known (the analytic   *)
(* mean of the control), c (the coefficient), gc (the rows after the       *)
(* correction), g (the vector reduced to the interval) and result.         *)
(***************************************************************************)
NoException == ""

\* The rows repeated, not negated.
concat_copy(z, av) == IF av THEN z \o z ELSE z

\* z, or with av np.concatenate((z, -z)).
concat_av(z, av) ==
  IF av THEN z \o [i \in 1..Len(z) |-> [j \in 1..Len(z[i]) |-> fneg(z[i][j])]]
  ELSE z

\* The increments with the first column left as drawn.
increments_all(z, mu, sigma, deltaT) ==
  [i \in 1..Len(z) |-> [j \in 1..Len(z[i]) |->
     fadd(fmul(mu, deltaT), fmul(fmul(sigma, fsqrt(deltaT)), z[i][j]))]]

\* The increments with the last column set to 0 in place of the first.
increments_last(z, mu, sigma, deltaT) ==
  [i \in 1..Len(z) |-> [j \in 1..Len(z[i]) |->
     IF j = Len(z[i]) THEN 0
     ELSE fadd(fmul(mu, deltaT), fmul(fmul(sigma, fsqrt(deltaT)), z[i][j]))]]

\* dX = mu*deltaT + sigma*np.sqrt(deltaT)*z; dX[:, 0] = 0.
increments(z, mu, sigma, deltaT) ==
  [i \in 1..Len(z) |-> [j \in 1..Len(z[i]) |->
     IF j = 1 THEN 0
     ELSE fadd(fmul(mu, deltaT), fmul(fmul(sigma, fsqrt(deltaT)), z[i][j]))]]

RECURSIVE cumsum(_, _)
cumsum(row, j) == IF j = 0 THEN 0 ELSE fadd(cumsum(row, j - 1), row[j])

\* A simulator that draws every row it returns: with av it draws 2*numsim
\* rows and mirrors none.
bmsim_vec_drawn(T, N, X0, mu, sigma, numsim, av, s) ==
  IF N = 0
  THEN [exc |-> "ZeroDivisionError", rng |-> s, draws |-> << >>,
        tvec |-> << >>, X |-> << >>]
  ELSE LET deltaT == fdiv(T, float(N))
           rows == IF av THEN 2 * numsim ELSE numsim
           z == randn(s, rows, N + 1)
           dX == increments(z, mu, sigma, deltaT)
       IN  [exc |-> NoException, rng |-> RngSkip(s, rows * (N + 1)),
            draws |-> z,
            tvec |-> [j \in 1..(N + 1) |->
                        fdiv(fmul(float(j - 1), T), float(N))],
            X |-> [i \in 1..rows |-> [j \in 1..(N + 1) |->
                     fadd(cumsum(dX[i], j), X0)]]]

bmsim_vec(T, N, X0, mu, sigma, numsim, av, s) ==
  IF N = 0
  THEN \* float(T)/N raises before anything is drawn.
       [exc |-> "ZeroDivisionError", rng |-> s, draws |-> << >>,
        tvec |-> << >>, X |-> << >>]
  ELSE LET deltaT == fdiv(T, float(N))
           tvec == [j \in 1..(N + 1) |-> fdiv(fmul(float(j - 1), T), float(N))]
           z0 == randn(s, numsim, N + 1)
           z == concat_av(z0, av)
           dX == increments(z, mu, sigma, deltaT)
           X == [i \in 1..Len(z) |-> [j \in 1..(N + 1) |->
                    fadd(cumsum(dX[i], j), X0)]]
       IN  [exc |-> NoException, rng |-> RngSkip(s, numsim * (N + 1)),
            draws |-> z0, tvec |-> tvec, X |-> X]

\* r - delta - .5*sigma**2
drift(r, sigma, delta) ==
  fsub(fsub(r, delta), fmul(One \div 2, fmul(sigma, sigma)))

\* S[:, 1:].mean(axis=1) of S = np.exp(X)
arith_avg(X) ==
  [i \in 1..Len(X) |->
     mean([j \in 1..(Len(X[i]) - 1) |-> fexp(X[i][j + 1])])]

\* np.exp(X[:, 1:].mean(axis=1))
geo_avg(X) ==
  [i \in 1..Len(X) |->
     fexp(mean([j \in 1..(Len(X[i]) - 1) |-> X[i][j + 1]]))]

\* np.maximum(avg - K, 0.)
call_payoff(avg, K) == [i \in 1..Len(avg) |-> fmax(fsub(avg[i], K), 0)]

\* np.exp(-r*T)
discount(r, T) == fexp(fneg(fmul(r, T)))

\* Neighbouring rows averaged: row 2i-1 with row 2i.
fold_adjacent(g, numsim) ==
  [i \in 1..numsim |-> fmul(One \div 2, fadd(g[2 * i - 1], g[2 * i]))]

\* .5*(g[:numsim] + g[numsim:])
fold(g, numsim) ==
  [i \in 1..numsim |-> fmul(One \div 2, fadd(g[i], g[i + numsim]))]

\* (m, m - zq/np.sqrt(numsim)*s, m + zq/np.sqrt(numsim)*s) of g
conf_int(g, numsim) ==
  LET m == mean(g)
      s == std(g)
      h == fmul(fdiv(zq, fsqrt(float(numsim))), s)
  IN  << m, fsub(m, h), fadd(m, h) >>

\* What a function that raised exc leaves behind.
Raised(exc, sim) ==
  [exc |-> exc, rng |-> sim.rng, draws |-> sim.draws, X |-> << >>,
   tgt |-> << >>, ctl |-> << >>, known |-> << >>, c |-> << >>,
   gc |-> << >>, g |-> << >>, result |-> << >>]

asianmc_vec(S0, K, T, r, sigma, delta, N, numsim, av, s) ==
  LET X0 == flog(S0)
      nu == drift(r, sigma, delta)
      sim == bmsim_vec(T, N, X0, nu, sigma, numsim, av, s)
  IN  IF sim.exc # NoException THEN Raised(sim.exc, sim)
      ELSE LET payoffs == call_payoff(arith_avg(sim.X), K)
               g0 == [i \in 1..Len(payoffs) |-> fmul(discount(r, T), payoffs[i])]
               g == IF av THEN fold(g0, numsim) ELSE g0
           IN  [exc |-> NoException, rng |-> sim.rng, draws |-> sim.draws,
                X |-> sim.X, tgt |-> << payoffs >>, ctl |-> << >>,
                known |-> << >>, c |-> << >>, gc |-> << g0 >>, g |-> << g >>,
                result |-> conf_int(g, numsim)]

\* S0/float(K) is a quotient of Python numbers: it raises on K = 0.
asiancall_geo2(S0, K, T, r, sigma, delta, N) ==
  IF K = 0
  THEN [exc |-> "ZeroDivisionError", Price |-> NaN, Delta |-> NaN]
  ELSE LET shat == fmul(sigma, fsqrt(fdiv(float((N + 1) * (2 * N + 1)),
                                          float(6 * N * N))))
           mhat == fadd(fdiv(fmul(shat, shat), float(2)),
                        fdiv(fmul(drift(r, sigma, delta), float(N + 1)),
                             float(2 * N)))
           d1 == fdiv(fdiv(fadd(flog(fdiv(S0, K)),
                                fmul(T, fadd(mhat,
                                             fmul(One \div 2, fmul(shat, shat))))),
                           shat),
                      fsqrt(T))
           d2 == fsub(d1, fmul(shat, fsqrt(T)))
           growth == fexp(fmul(fsub(mhat, r), T))
       IN  [exc |-> NoException,
            Price |-> fsub(fmul(fmul(growth, S0), norm_cdf(d1)),
                           fmul(fmul(discount(r, T), K), norm_cdf(d2))),
            Delta |-> fmul(growth, norm_cdf(d1))]

\* The same lines as asiancall_geo2, returning the price alone.
asiancall_geo(S0, K, T, r, sigma, delta, N) ==
  LET a == asiancall_geo2(S0, K, T, r, sigma, delta, N)
  IN  [exc |-> a.exc, Price |-> a.Price]

\* (np.cov(target, control)/np.var(control))[0, 1]
cv_coef(target, control) == fdiv(cov01(target, control), var(control))

\* The correction applied to the first half of the rows only.
cv_correct_half(target, control, c, disc, known) ==
  [i \in 1..Len(target) |->
     IF 2 * i <= Len(target)
     THEN fsub(fmul(disc, target[i]),
               fmul(c, fsub(fmul(disc, control[i]), known)))
     ELSE fmul(disc, target[i])]

\* np.exp(-r*T)*target - c*(np.exp(-r*T)*control - known)
cv_correct(target, control, c, disc, known) ==
  [i \in 1..Len(target) |->
     fsub(fmul(disc, target[i]),
          fmul(c, fsub(fmul(disc, control[i]), known)))]

asianmc_cv(S0, K, T, r, sigma, delta, N, numsim, s) ==
  LET X0 == flog(S0)
      nu == drift(r, sigma, delta)
      sim == bmsim_vec(T, N, X0, nu, sigma, numsim, FALSE, s)
      geo == IF sim.exc # NoException THEN [exc |-> sim.exc]
             ELSE asiancall_geo(S0, K, T, r, sigma, delta, N)
  IN  IF geo.exc # NoException THEN Raised(geo.exc, sim)
      ELSE LET payoffs == call_payoff(arith_avg(sim.X), K)
               control == call_payoff(geo_avg(sim.X), K)
               c == cv_coef(payoffs, control)
               g == cv_correct(payoffs, control, c, discount(r, T), geo.Price)
           IN  [exc |-> NoException, rng |-> sim.rng, draws |-> sim.draws,
                X |-> sim.X, tgt |-> << payoffs >>, ctl |-> << control >>,
                known |-> << geo.Price >>, c |-> << c >>, gc |-> << g >>,
                g |-> << g >>, result |-> conf_int(g, numsim)]

\* asianmc_cv(S0, K, T, r, sigma, delta, N, numsim, av=True): the def has no
\* parameter av, so binding the arguments raises TypeError and the body never
\* runs.
asianmc_cv_av(S0, K, T, r, sigma, delta, N, numsim, av, s) ==
  Raised("TypeError", [rng |-> s, draws |-> << >>])

\* avg/float(S0) in every row, whatever the payoff.
pathwise_all(ind, S0, avg) ==
  [i \in 1..Len(avg) |-> fmul(fdiv(One, S0), avg[i])]

\* (ind > 0)/float(S0)*avg
pathwise(ind, S0, avg) ==
  [i \in 1..Len(avg) |->
     fmul(fdiv(IF fgt(ind[i], 0) THEN One ELSE 0, S0), avg[i])]

asianMC(S0, K, T, r, sigma, delta, N, numsim, av, s) ==
  LET X0 == flog(S0)
      nu == drift(r, sigma, delta)
      sim == bmsim_vec(T, N, X0, nu, sigma, numsim, av, s)
      geo == IF sim.exc # NoException THEN [exc |-> sim.exc]
             ELSE asiancall_geo2(S0, K, T, r, sigma, delta, N)
  IN  IF geo.exc # NoException THEN Raised(geo.exc, sim)
      ELSE LET payoffs == call_payoff(arith_avg(sim.X), K)
               control1 == call_payoff(geo_avg(sim.X), K)
               deltas == pathwise(payoffs, S0, arith_avg(sim.X))
               control2 == pathwise(control1, S0, geo_avg(sim.X))
               c1 == cv_coef(payoffs, control1)
               c2 == cv_coef(deltas, control2)
               g1c == cv_correct(payoffs, control1, c1, discount(r, T), geo.Price)
               g2c == cv_correct(deltas, control2, c2, discount(r, T), geo.Delta)
               g1 == IF av THEN fold(g1c, numsim) ELSE g1c
               g2 == IF av THEN fold(g2c, numsim) ELSE g2c
           IN  [exc |-> NoException, rng |-> sim.rng, draws |-> sim.draws,
                X |-> sim.X, tgt |-> << payoffs, deltas >>,
                ctl |-> << control1, control2 >>,
                known |-> << geo.Price, geo.Delta >>, c |-> << c1, c2 >>,
                gc |-> << g1c, g2c >>, g |-> << g1, g2 >>,
                result |-> conf_int(g1, numsim) \o conf_int(g2, numsim)]

(***************************************************************************)
(* The notebook session.  cfg holds the notebook's globals S0, K, T, r,    *)
(* sigma, delta, N, numsim (set once, passed to every call), rng the state *)
(* of numpy's process-wide generator, last the latest call (its function,  *)
(* its av flag, the generator state it started from, what it returned or   *)
(* raised), prev the call before it where the session keeps a history.     *)
(***************************************************************************)
VARIABLES cfg, rng, last, prev

vars == << cfg, rng, last, prev >>

S0Set == {4 * One}
KSet == {0, 2 * One, 64 * One}
TSet == {One}
rSet == {One \div 4}
sigmaSet == {One \div 2, One}
deltaSet == {-(One \div 4), One \div 8}

CfgSet ==
  [S0 : S0Set, K : KSet, T : TSet, r : rSet, sigma : sigmaSet,
   delta : deltaSet, N : 0..MaxN, numsim : 1..MaxNumsim]

\* np.random.seed(k)
SeedSet == {0, 1}
seed(k) == (7 * k + 2) % 16

NoCall == [fn |-> "none"]

Init ==
  /\ cfg \in CfgSet
  /\ rng \in RngStates
  /\ last = NoCall
  /\ prev = NoCall

Seed(k) ==
  /\ rng' = seed(k)
  /\ UNCHANGED << cfg, last, prev >>

\* A generator state that depends on whether a call was made before.
SourceAfterCalls == IF last.fn = "none" THEN rng ELSE RngNext(rng)

\* The generator state np.random.randn draws from: the process-wide one.
Source == rng

Returned(fn, av, out) ==
  [fn |-> fn, av |-> av, rng0 |-> rng, out |-> out]

\* What the history keeps of a call.
Summary(call) ==
  IF call.fn = "none" THEN NoCall
  ELSE [fn |-> call.fn, av |-> call.av, rng0 |-> call.rng0,
        rng1 |-> call.out.rng, exc |-> call.out.exc,
        draws |-> call.out.draws, result |-> call.out.result]

Call(fn, av, out, keep) ==
  /\ last' = Returned(fn, av, out)
  /\ rng' = out.rng
  /\ prev' = IF keep THEN Summary(last) ELSE NoCall
  /\ UNCHANGED cfg

CallAsianmcVec(av, keep) ==
  Call("asianmc_vec", av,
       asianmc_vec(cfg.S0, cfg.K, cfg.T, cfg.r, cfg.sigma, cfg.delta,
                   cfg.N, cfg.numsim, av, Source), keep)

CallAsianmcCv(keep) ==
  Call("asianmc_cv", FALSE,
       asianmc_cv(cfg.S0, cfg.K, cfg.T, cfg.r, cfg.sigma, cfg.delta,
                  cfg.N, cfg.numsim, Source), keep)

\* The call the docstring of asianmc_cv describes: av=True passed by keyword.
CallAsianmcCvAv(keep) ==
  Call("asianmc_cv", TRUE,
       asianmc_cv_av(cfg.S0, cfg.K, cfg.T, cfg.r, cfg.sigma, cfg.delta,
                     cfg.N, cfg.numsim, TRUE, Source), keep)

CallAsianMC(av, keep) ==
  Call("asianMC", av,
       asianMC(cfg.S0, cfg.K, cfg.T, cfg.r, cfg.sigma, cfg.delta,
               cfg.N, cfg.numsim, av, Source), keep)

Next ==
  \/ \E k \in SeedSet : Seed(k)
  \/ \E av \in BOOLEAN : CallAsianmcVec(av, FALSE)
  \/ CallAsianmcCv(FALSE)
  \/ CallAsianmcCvAv(FALSE)
  \/ \E av \in BOOLEAN : CallAsianMC(av, FALSE)

Spec == Init /\ [][Next]_vars

\* A session that starts by seeding the generator and keeps the call before
\* the latest one.
SessionCfgSet ==
  {c \in CfgSet : /\ c.N = MaxN /\ c.numsim = MaxNumsim /\ c.sigma = One
                   /\ c.delta >= 0 /\ c.K > 0}

InitSession ==
  /\ cfg \in SessionCfgSet
  /\ rng \in {seed(k) : k \in SeedSet}
  /\ last = NoCall
  /\ prev = NoCall

NextSession ==
  \/ \E k \in SeedSet : Seed(k)
  \/ \E av \in BOOLEAN : CallAsianmcVec(av, TRUE)
  \/ CallAsianmcCv(TRUE)
  \/ CallAsianmcCvAv(TRUE)
  \/ \E av \in BOOLEAN : CallAsianMC(av, TRUE)

SpecSession == InitSession /\ [][NextSession]_vars

(***************************************************************************)
(* Properties.                                                             *)
(***************************************************************************)
Called == last.fn # "none"
Completed == Called /\ last.out.exc = NoException

\* The call raised before it drew anything and returned nothing.
AbortedBeforeDraws ==
  /\ last.out.exc # NoException
  /\ last.out.draws = << >>
  /\ last.out.rng = last.rng0
  /\ last.out.result = << >>

HasNaN(v) == \E i \in 1..Len(v) : IsNaN(v[i])

IsConstant(v) == \A i \in 1..Len(v) : v[i] = v[1]

\* The configurations the specification calls valid.
ValidParameters ==
  /\ cfg.S0 > 0 /\ cfg.K > 0 /\ cfg.T > 0 /\ cfg.sigma > 0 /\ cfg.delta >= 0

ValidSizes == cfg.N >= 1 /\ cfg.numsim >= 2

\* C1: a call with N = 0 or with numsim = 1 (its parameters valid otherwise)
\* raises a validation error, and nothing is computed: no normal is drawn
\* from the generator and no result is returned.
C1_RejectsDegenerateSizes ==
  (Called /\ ValidParameters /\ (cfg.N = 0 \/ cfg.numsim = 1))
    => AbortedBeforeDraws

\* C2: a call with S0 <= 0, K <= 0, T <= 0, sigma <= 0 or delta < 0 (its N
\* and numsim valid) aborts with a validation error before any normal is
\* drawn, and returns nothing.
C2_RejectsInvalidParameters ==
  (Called /\ ValidSizes /\ ~ValidParameters) => AbortedBeforeDraws

\* C3: in a call of asianMC on a valid configuration, whenever the control
\* vector of a series has zero sample variance (it is constant over the
\* rows), the coefficient of that series is 0, the corrected rows are the
\* uncorrected (discounted) target rows, and the call completes with no NaN
\* in its result.
C3_DegenerateControlFallback ==
  (Called /\ last.fn = "asianMC" /\ ValidParameters /\ ValidSizes) =>
    /\ last.out.exc = NoException
    /\ \A k \in 1..Len(last.out.ctl) :
         IsConstant(last.out.ctl[k]) =>
           /\ last.out.c[k] = 0
           /\ \A i \in 1..Len(last.out.gc[k]) :
                last.out.gc[k][i]
                  = fmul(discount(cfg.r, cfg.T), last.out.tgt[k][i])
           /\ ~HasNaN(last.out.result)

\* Two calls of one function with the same arguments (cfg is the session's
\* and never changes; av is the call's).
SameCall == /\ prev.fn # "none" /\ last.fn = prev.fn /\ last.av = prev.av

Outcome(call) == << call.exc, call.result >>

C5_NoProcessWideState ==
  (SameCall /\ last.rng0 = prev.rng1) => Outcome(Summary(last)) = Outcome(prev)

\* What the latest call passed to bmsim_vec.
X0 == flog(cfg.S0)
nu == drift(cfg.r, cfg.sigma, cfg.delta)
deltaT == fdiv(cfg.T, float(cfg.N))
Rows == 1..cfg.numsim
Columns == 1..(cfg.N + 1)

\* The part of X[i][j] - X0 that is not drift.
Noise(i, j) == last.out.X[i][j] - X0 - (j - 1) * fmul(nu, deltaT)

\* C6 as stated: with antithetic sampling, rows i and i+numsim are exact
\* negations of each other in cumulative increments, whatever the drift:
\* X[i][j] - X0 = -(X[i+numsim][j] - X0).
C6_MirrorNegation ==
  (Completed /\ last.av) =>
    \A i \in Rows : \A j \in Columns :
      last.out.X[i][j] - X0 = -(last.out.X[i + cfg.numsim][j] - X0)

\* C6 amended: with antithetic sampling, rows i and i+numsim are reflections
\* of each other about the drift line X0 + j*mu*deltaT: their cumulative
\* increments less the drift j*mu*deltaT are exact negations (so the rows are
\* negations in cumulative increments when the drift is 0).
C6_MirrorAboutDrift ==
  (Completed /\ last.av) =>
    \A i \in Rows : \A j \in Columns :
      /\ Noise(i, j) = -Noise(i + cfg.numsim, j)
      /\ nu = 0 =>
           last.out.X[i][j] - X0 = -(last.out.X[i + cfg.numsim][j] - X0)

\* C6 happens: an antithetic batch of two steps or more with drift, some row
\* of which differs from its mirror.
C6_Witness ==
  /\ Completed /\ last.av /\ cfg.N >= 2 /\ nu # 0
  /\ \E i \in Rows : Noise(i, cfg.N + 1) # 0 /\ Noise(i, 2) # 0

\* C7: for N >= 1 and numsim >= 1 the grid bmsim_vec returns has exactly N+1
\* columns and numsim rows, 2*numsim with av, rows numsim.. being the
\* antithetic ones (built from the negated draws), and column 0 of every row
\* is the starting value X0 whatever the draws.
C7_GridShape ==
  Completed =>
    /\ Len(last.out.X) = IF last.av THEN 2 * cfg.numsim ELSE cfg.numsim
    /\ \A i \in 1..Len(last.out.X) :
         /\ Len(last.out.X[i]) = cfg.N + 1
         /\ last.out.X[i][1] = X0
    /\ \A i \in Rows : \A j \in Columns \ {1} :
         /\ last.out.X[i][j] - last.out.X[i][j - 1]
              = fmul(nu, deltaT)
                  + fmul(fmul(cfg.sigma, fsqrt(deltaT)), last.out.draws[i][j])
         /\ last.av =>
              last.out.X[i + cfg.numsim][j] - last.out.X[i + cfg.numsim][j - 1]
                = fmul(nu, deltaT)
                    + fmul(fmul(cfg.sigma, fsqrt(deltaT)),
                           -last.out.draws[i][j])

\* C7 happens: an antithetic batch of two rows or more whose draws of column
\* 0 are not 0.
C7_Witness ==
  /\ Completed /\ last.av /\ cfg.numsim >= 2 /\ cfg.N >= 2
  /\ \A i \in Rows : last.out.draws[i][1] # 0

Series == 1..Len(last.out.g)

\* The three fields of result for series k.
Triple(k) == SubSeq(last.out.result, 3 * k - 2, 3 * k)

\* C8: in asianMC with antithetic sampling all 2*numsim rows are corrected
\* by the control variate first, then folded, then reduced to the interval:
\* the folded vector has length numsim, its element i is the average of the
\* corrected rows i and i+numsim, for the price and for the Delta series.
C8_CorrectThenFold ==
  (Completed /\ last.fn = "asianMC" /\ last.av) =>
    \A k \in {1, 2} :
      /\ Len(last.out.gc[k]) = 2 * cfg.numsim
      /\ last.out.gc[k]
           = cv_correct(last.out.tgt[k], last.out.ctl[k], last.out.c[k],
                        discount(cfg.r, cfg.T), last.out.known[k])
      /\ Len(last.out.g[k]) = cfg.numsim
      /\ \A i \in Rows :
           last.out.g[k][i]
             = fmul(One \div 2,
                    fadd(last.out.gc[k][i], last.out.gc[k][i + cfg.numsim]))
      /\ Triple(k) = conf_int(last.out.g[k], cfg.numsim)

\* C8 happens: an antithetic asianMC call with finite results whose
\* corrected rows differ from one another.
C8_Witness ==
  /\ Completed /\ last.fn = "asianMC" /\ last.av /\ cfg.numsim >= 2
  /\ ~HasNaN(last.out.result)
  /\ \A k \in {1, 2} :
       /\ last.out.c[k] # 0
       /\ last.out.gc[k][1] # last.out.gc[k][2]
       /\ last.out.gc[k][1] # last.out.gc[k][1 + cfg.numsim]

\* C9: on a valid configuration, for the price and the Delta, with or
\* without folding, the vector reduced to the interval has length numsim and
\* the triple returned is (m, m - h, m + h) with h = zq*s/sqrt(numsim) >= 0,
\* m the mean and s the standard deviation (denominator numsim) of that
\* vector: lower <= point estimate <= upper, the estimate being the midpoint.
C9_Interval ==
  (Completed /\ ValidParameters /\ ValidSizes) =>
    \A k \in Series :
      LET g == last.out.g[k]
          m == Triple(k)[1]
          h == fmul(fdiv(zq, fsqrt(float(cfg.numsim))), std(g))
      IN  /\ Len(g) = cfg.numsim
          /\ m = mean(g)
          /\ fle(0, h)
          /\ Triple(k) = << m, fsub(m, h), fadd(m, h) >>
          /\ fle(Triple(k)[2], m) /\ fle(m, Triple(k)[3])
          /\ Triple(k)[2] + Triple(k)[3] = 2 * m

\* C11: asianmc_cv accepts av=True and then uses antithetic sampling, as its
\* docstring states: on a valid configuration the call completes, simulates
\* numsim antithetic pairs (2*numsim rows) and reduces the numsim folded
\* values, each the average of a corrected row and its mirror.
C11_CvAntithetic ==
  (Called /\ last.fn = "asianmc_cv" /\ last.av
     /\ ValidParameters /\ ValidSizes) =>
    /\ last.out.exc = NoException
    /\ Len(last.out.X) = 2 * cfg.numsim
    /\ Len(last.out.g[1]) = cfg.numsim
    /\ \A i \in Rows :
         last.out.g[1][i]
           = fmul(One \div 2,
                  fadd(last.out.gc[1][i], last.out.gc[1][i + cfg.numsim]))

\* The number of normals a call that reaches bmsim_vec draws.
Drawn == IF cfg.N = 0 THEN 0 ELSE cfg.numsim * (cfg.N + 1)

\* C12: the normals a simulation call consumes are a function of numsim, N
\* and the generator state it starts from alone, whatever S0, K, T, r,
\* sigma, delta and the antithetic flag are: the call draws numsim*(N+1)
\* normals (none when N = 0), the k-th of them the k-th output of the
\* generator after the starting state, and leaves the generator that many
\* steps further.  So two calls sharing numsim and N, each started from the
\* same generator state, consume the same normals.
C12_CommonRandomNumbers ==
  (Called /\ last.out.exc # "TypeError") =>
    /\ last.out.rng = RngSkip(last.rng0, Drawn)
    /\ Len(last.out.draws) * (cfg.N + 1) = Drawn
    /\ \A i \in 1..Len(last.out.draws) :
         /\ Len(last.out.draws[i]) = cfg.N + 1
         /\ \A j \in Columns :
              last.out.draws[i][j]
                = RngOut(RngSkip(last.rng0, (i - 1) * (cfg.N + 1) + (j - 1)))

\* C12 happens: an antithetic call with strike 0 and a negative dividend
\* yield that drew two rows or more, not all alike.
C12_Witness ==
  /\ Called /\ last.av /\ cfg.delta < 0 /\ cfg.K = 0
  /\ cfg.numsim >= 2 /\ cfg.N >= 2
  /\ Len(last.out.draws) = cfg.numsim
  /\ last.out.draws[1] # last.out.draws[2]

\* The sample covariance of x and y with the denominator of var: the length.
cov_n(x, y) ==
  LET mx == mean(x)
      my == mean(y)
  IN  mean([i \in 1..Len(x) |-> fmul(fsub(x[i], mx), fsub(y[i], my))])

\* C13: for the price and for the Delta, on a valid configuration, whenever
\* the control has non-zero sample variance the coefficient applied is the
\* sample covariance of target and control divided by the sample variance of
\* the control, both with the same normalisation: the least-squares slope
\* of the target on the control.
C13_LeastSquaresCoefficient ==
  (Completed /\ ValidParameters /\ ValidSizes) =>
    \A k \in 1..Len(last.out.c) :
      fgt(var(last.out.ctl[k]), 0) =>
        last.out.c[k]
          = fdiv(cov_n(last.out.tgt[k], last.out.ctl[k]),
                 var(last.out.ctl[k]))

\* The discounted pathwise Delta of a row with average avg and payoff pay.
DeltaContribution(pay, avg) ==
  IF pay > 0
  THEN fmul(discount(cfg.r, cfg.T), fmul(fdiv(One, cfg.S0), avg))
  ELSE 0

\* C14: in asianMC, for every row of the grid, the pathwise Delta
\* contribution of the target is exp(-rT) * (arithmetic average of the
\* prices of columns 1..N) / S0 when the row's arithmetic payoff
\* max(average - K, 0) is strictly positive and exactly 0 otherwise (average
\* <= K); the control's is formed the same way from the geometric average
\* and the control payoff.  These are the terms the correction combines.
C14_PathwiseDelta ==
  (Completed /\ last.fn = "asianMC") =>
    LET disc == discount(cfg.r, cfg.T)
        arith == arith_avg(last.out.X)
        geo == geo_avg(last.out.X)
    IN  /\ \A i \in 1..Len(last.out.X) :
             /\ last.out.tgt[1][i] = fmax(fsub(arith[i], cfg.K), 0)
             /\ last.out.ctl[1][i] = fmax(fsub(geo[i], cfg.K), 0)
             /\ fmul(disc, last.out.tgt[2][i])
                  = DeltaContribution(last.out.tgt[1][i], arith[i])
             /\ fmul(disc, last.out.ctl[2][i])
                  = DeltaContribution(last.out.ctl[1][i], geo[i])
             /\ arith[i] <= cfg.K => last.out.tgt[2][i] = 0
             /\ geo[i] <= cfg.K => last.out.ctl[2][i] = 0
        /\ last.out.gc[2]
             = cv_correct(last.out.tgt[2], last.out.ctl[2], last.out.c[2],
                          disc, last.out.known[2])

\* C14 happens: a call of asianMC with a finite result where some row pays
\* and some row does not.
C14_Witness ==
  /\ Completed /\ last.fn = "asianMC" /\ ~HasNaN(last.out.result)
  /\ \E i \in 1..Len(last.out.X) :
       last.out.tgt[1][i] > 0 /\ last.out.tgt[2][i] > 0
  /\ \E i \in 1..Len(last.out.X) :
       last.out.tgt[1][i] = 0 /\ last.out.ctl[1][i] = 0

\* The latest call made again from the generator state s.
Rerun(s) ==
  CASE last.fn = "asianmc_vec" ->
         asianmc_vec(cfg.S0, cfg.K, cfg.T, cfg.r, cfg.sigma, cfg.delta,
                     cfg.N, cfg.numsim, last.av, s)
    [] last.fn = "asianmc_cv" ->
         asianmc_cv(cfg.S0, cfg.K, cfg.T, cfg.r, cfg.sigma, cfg.delta,
                    cfg.N, cfg.numsim, s)
    [] last.fn = "asianMC" ->
         asianMC(cfg.S0, cfg.K, cfg.T, cfg.r, cfg.sigma, cfg.delta,
                 cfg.N, cfg.numsim, last.av, s)

\* The matrix drawn from state s agrees with the latest call's on every
\* column but the first.
AgreesAfterColumn0(s) ==
  LET z == randn(s, cfg.numsim, cfg.N + 1)
  IN  \A i \in Rows : \A j \in Columns \ {1} : z[i][j] = last.out.draws[i][j]

DiffersInColumn0(s) ==
  LET z == randn(s, cfg.numsim, cfg.N + 1)
  IN  \E i \in Rows : z[i][1] # last.out.draws[i][1]

\* C15: the grid and every field of the result are independent of the first
\* column of the matrix of normals: a run of the same call whose matrix
\* agrees with the latest call's on columns 1..N and differs in column 0
\* returns the same grid and the same result, although the call consumes all
\* numsim*(N+1) normals.
C15_Column0Unused ==
  Completed =>
    /\ last.out.rng = RngSkip(last.rng0, cfg.numsim * (cfg.N + 1))
    /\ \A i \in Rows : Len(last.out.draws[i]) = cfg.N + 1
    /\ \A s \in RngStates :
         (AgreesAfterColumn0(s) /\ DiffersInColumn0(s)) =>
           /\ Rerun(s).X = last.out.X
           /\ Rerun(s).result = last.out.result

\* C15 happens: a call with a finite result, and a generator state whose
\* matrix differs from the call's in column 0 alone, by a draw that is not 0.
C15_Witness ==
  /\ Completed /\ ~HasNaN(last.out.result)
  /\ \E s \in RngStates : AgreesAfterColumn0(s) /\ DiffersInColumn0(s)
  /\ \E i \in Rows : last.out.draws[i][1] # 0

\* Row i of series k folded with its mirror before the correction: the
\* averages of the two targets and of the two controls, corrected with the
\* coefficient of the series.
FoldThenCorrect(k, i) ==
  LET disc == discount(cfg.r, cfg.T)
      t == fmul(One \div 2,
                fadd(last.out.tgt[k][i], last.out.tgt[k][i + cfg.numsim]))
      y == fmul(One \div 2,
                fadd(last.out.ctl[k][i], last.out.ctl[k][i + cfg.numsim]))
  IN  fsub(fmul(disc, t),
           fmul(last.out.c[k], fsub(fmul(disc, y), last.out.known[k])))

\* The rounding of the products in the two orders: some units of the grid,
\* more with a larger coefficient.
RoundingSlack(c) == 3 + 2 * (Abs(c) \div One + 1)

\* Equal up to the rounding of the arithmetic (nan with nan).
Near(a, b, slack) ==
  IF IsNaN(a) \/ IsNaN(b) THEN IsNaN(a) /\ IsNaN(b) ELSE Abs(a - b) <= slack

\* C16: in asianMC with antithetic sampling, the coefficient of each series
\* is estimated once from all 2*numsim rows (the paths and their mirrors
\* pooled) and that one coefficient corrects both halves, so that correcting
\* and then folding gives what folding and then correcting gives (up to the
\* rounding of the arithmetic): folded[i] = avg(target[i], target[i+numsim])
\* - c*(avg(control[i], control[i+numsim]) - analyticMean), targets and
\* controls discounted, for every i in [0, numsim).
C16_FoldCommutesWithCorrection ==
  (Completed /\ last.fn = "asianMC" /\ last.av) =>
    \A k \in {1, 2} :
      /\ Len(last.out.tgt[k]) = 2 * cfg.numsim
      /\ Len(last.out.ctl[k]) = 2 * cfg.numsim
      /\ last.out.c[k]
           = fdiv(cov01(last.out.tgt[k], last.out.ctl[k]),
                  var(last.out.ctl[k]))
      /\ \A i \in 1..(2 * cfg.numsim) :
           last.out.gc[k][i]
             = fsub(fmul(discount(cfg.r, cfg.T), last.out.tgt[k][i]),
                    fmul(last.out.c[k],
                         fsub(fmul(discount(cfg.r, cfg.T), last.out.ctl[k][i]),
                              last.out.known[k])))
      /\ \A i \in Rows :
           Near(last.out.g[k][i], FoldThenCorrect(k, i),
                RoundingSlack(last.out.c[k]))

\* C16 happens: an antithetic asianMC call with finite results, non-zero
\* coefficients and a row where the correction changes the folded value.
C16_Witness ==
  /\ Completed /\ last.fn = "asianMC" /\ last.av /\ cfg.numsim >= 2
  /\ ~HasNaN(last.out.result)
  /\ \A k \in {1, 2} :
       /\ last.out.c[k] # 0
       /\ \E i \in Rows :
            Abs(last.out.g[k][i]
                  - fmul(discount(cfg.r, cfg.T),
                         fmul(One \div 2,
                              fadd(last.out.tgt[k][i],
                                   last.out.tgt[k][i + cfg.numsim]))))
              > 4 * RoundingSlack(last.out.c[k])

=============================================================================
